---- MODULE Spec2Model ----
(***************************************************************************)
(* Resource-lifetime model of the TypeScript binding of the tokenizers     *)
(* native library: the managed instances (Normalizer, PreTokenizer,        *)
(* PipelineString, Tokenizer), their native handles, the call helpers that *)
(* cross the foreign-function boundary and the disposal protocol.          *)
(*                                                                         *)
(* `dylib.<name>` is read as the symbol <name> of the table handed to      *)
(* dlopen: a name the table declares resolves to that native function, a   *)
(* name it does not declare is the JavaScript value undefined, and calling *)
(* undefined raises TypeError.                                             *)
(*                                                                         *)
(* The native library itself is outside the repository: every native call  *)
(* returns a status drawn from Statuses, and a successful native           *)
(* constructor returns a fresh non-zero handle.                            *)
(***************************************************************************)
EXTENDS Integers, Sequences, FiniteSets, TLC

\* ------------------------------------------------------------------ bounds

\* Managed instances the caller may hold at once.
MaxObjs == 3
\* Longest list handed to a Sequence constructor.
MaxLen == 2
\* Longest delimiterChar string handed to the Delimiter constructor.
MaxStrLen == 2

VARIABLES
    objs,         \* the instances the caller holds: class, Sequence flag, children, native handle given
    instancePtr,  \* ForeignInstance.instancePtr of each instance (0 = released / never set)
    released,     \* every (release function, handle) call made so far, in order
    disposeState, \* per instance: was dispose() called, and did the last call return or raise
    lastOp        \* the public operation just performed: arguments, native calls, outcome

vars == <<objs, instancePtr, released, disposeState, lastOp>>

\* ------------------------------------------------------------------ native boundary

\* The symbol table handed to Deno.dlopen / ffi.dlopen.
Symbols ==
    { "free_buffer",
      "new_pipeline_string", "get_splits", "free_pipeline_string",
      "new_normalizer_wrapper", "normalize", "free_normalizer_wrapper",
      "new_pre_tokenizer_wrapper", "pre_tokenize", "free_pre_tokenizer_wrapper",
      "tokenizer_from_file", "tokenizer_from_train", "encode", "decode",
      "free_tokenizer_wrapper" }

\* dylib.<name>: the native function, or undefined when the table has no such name.
dylib(name) == IF name \in Symbols THEN name ELSE "undefined"

\* generated/error.ts, CallStatus: the status codes a native call can return. The
\* generated file is not among the sources; the numbering here follows throwErrors
\* and the call helpers, which read details only from a positive status: the codes
\* named *_DETAILS are positive, the others negative, 0 is success and any other
\* number matches no case.
callStatusFromJSON(status) ==
    CASE status = 0   -> "OK"
      [] status = -1  -> "DECODE_ERROR"
      [] status = -2  -> "INVALID_ARGUMENTS"
      [] status = -3  -> "UNKNOWN_ENUM_VALUE"
      [] status = -4  -> "EMPTY_PARAMS"
      [] status = 1   -> "INVALID_ARGUMENTS_DETAILS"
      [] status = 2   -> "INVALID_POINTER_DETAILS"
      [] status = 3   -> "NORMALIZATION_ERROR_DETAILS"
      [] status = 4   -> "PRE_TOKENIZATION_ERROR_DETAILS"
      [] status = 5   -> "TOKENIZER_BUILD_ERROR_DETAILS"
      [] status = 6   -> "TOKENIZER_TRAINING_ERROR_DETAILS"
      [] status = 7   -> "TOKENIZER_SAVE_ERROR_DETAILS"
      [] status = 8   -> "TOKENIZER_LOAD_FILE_ERROR_DETAILS"
      [] status = 9   -> "TOKENIZER_ENCODING_ERROR_DETAILS"
      [] status = 10  -> "TOKENIZER_DECODING_ERROR_DETAILS"
      [] OTHER        -> "UNRECOGNIZED"

\* The statuses the native side is let to answer with in the lifetime model: a
\* known code without details, success, a known code with details (the one for a
\* bad handle) and a code no CallStatus case matches.
Statuses == {-1, 0, 2, 11}

\* No error raised.
NoError == [cls |-> "none", detail |-> <<>>]

Raise(cls, detail) == [cls |-> cls, detail |-> detail]

\* throwErrors that reports a missing field as a failed normalization.
throwErrors_merged(status) ==
    LET cs == callStatusFromJSON(status) IN
    CASE cs = "DECODE_ERROR"                      -> Raise("InvalidProtocolBuffer", <<>>)
      [] cs = "INVALID_ARGUMENTS_DETAILS"         -> Raise("InvalidArguments", <<>>)
      [] cs = "INVALID_ARGUMENTS"                 -> Raise("InvalidArguments", <<>>)
      [] cs = "UNKNOWN_ENUM_VALUE"                -> Raise("RangeError", <<>>)
      [] cs = "EMPTY_PARAMS"                      -> Raise("NormalizationError", <<>>)
      [] cs = "INVALID_POINTER_DETAILS"           -> Raise("InvalidPointer", <<>>)
      [] cs = "NORMALIZATION_ERROR_DETAILS"       -> Raise("NormalizationError", <<>>)
      [] cs = "PRE_TOKENIZATION_ERROR_DETAILS"    -> Raise("PreTokenizationError", <<>>)
      [] cs = "TOKENIZER_BUILD_ERROR_DETAILS"     -> Raise("TokenizerBuildError", <<>>)
      [] cs = "TOKENIZER_TRAINING_ERROR_DETAILS"  -> Raise("TokenizerTrainingError", <<>>)
      [] cs = "TOKENIZER_SAVE_ERROR_DETAILS"      -> Raise("TokenizerSaveError", <<>>)
      [] cs = "TOKENIZER_LOAD_FILE_ERROR_DETAILS" -> Raise("TokenizerLoadFileError", <<>>)
      [] cs = "TOKENIZER_ENCODING_ERROR_DETAILS"  -> Raise("TokenizerEncodingError", <<>>)
      [] cs = "TOKENIZER_DECODING_ERROR_DETAILS"  -> Raise("TokenizerDecodingError", <<>>)
      [] OTHER                                    -> Raise("Error", <<status>>)

\* throwErrors(status, buf): always throws; the class thrown, with the status code
\* as detail of the generic Error.
throwErrors(status) ==
    LET cs == callStatusFromJSON(status) IN
    CASE cs = "DECODE_ERROR"                      -> Raise("InvalidProtocolBuffer", <<>>)
      [] cs = "INVALID_ARGUMENTS_DETAILS"         -> Raise("InvalidArguments", <<>>)
      [] cs = "INVALID_ARGUMENTS"                 -> Raise("InvalidArguments", <<>>)
      [] cs = "UNKNOWN_ENUM_VALUE"                -> Raise("RangeError", <<>>)
      [] cs = "EMPTY_PARAMS"                      -> Raise("EmptyParams", <<>>)
      [] cs = "INVALID_POINTER_DETAILS"           -> Raise("InvalidPointer", <<>>)
      [] cs = "NORMALIZATION_ERROR_DETAILS"       -> Raise("NormalizationError", <<>>)
      [] cs = "PRE_TOKENIZATION_ERROR_DETAILS"    -> Raise("PreTokenizationError", <<>>)
      [] cs = "TOKENIZER_BUILD_ERROR_DETAILS"     -> Raise("TokenizerBuildError", <<>>)
      [] cs = "TOKENIZER_TRAINING_ERROR_DETAILS"  -> Raise("TokenizerTrainingError", <<>>)
      [] cs = "TOKENIZER_SAVE_ERROR_DETAILS"      -> Raise("TokenizerSaveError", <<>>)
      [] cs = "TOKENIZER_LOAD_FILE_ERROR_DETAILS" -> Raise("TokenizerLoadFileError", <<>>)
      [] cs = "TOKENIZER_ENCODING_ERROR_DETAILS"  -> Raise("TokenizerEncodingError", <<>>)
      [] cs = "TOKENIZER_DECODING_ERROR_DETAILS"  -> Raise("TokenizerDecodingError", <<>>)
      [] OTHER                                    -> Raise("Error", <<status>>)

\* The message encoded by inputParser.encode(input): the wrapper field set, the
\* handles it carries and the text it carries.
Input(kind, handles, text) == [kind |-> kind, handles |-> handles, text |-> text]

NoInput == Input("none", <<>>, <<>>)

\* One call across the boundary: the function, the instance pointer argument
\* (0 for constructors), the message, the status returned.
Call(fn, ptr, input, status) == [status |-> status, fn |-> fn, ptr |-> ptr, input |-> input]

FreeBuffer == Call("free_buffer", 0, NoInput, 0)

\* freFunc()(instancePtr): a release function takes the handle and returns nothing.
FreeCall(fn, ptr) == Call(fn, ptr, NoInput, 0)

\* What a helper does with the output buffer of one native call, in order:
\* outBufArray is a view of the native memory at outPtr, outBuf is the Uint8Array
\* built from it (new Uint8Array(Buffer.from(...)) copies the bytes), free_buffer
\* gives the native memory back, and e.Error.decode reads the details.
BufferEvent(ev, of) == [ev |-> ev, of |-> of]

View == BufferEvent("view", "outBufArray")

Copy == BufferEvent("copy", "outBuf")

Free == BufferEvent("free", "outPtr")

\* throwErrors(status, buf): the details are decoded from buf when status > 0.
throwErrorsDecode(status, buf) ==
    IF status > 0 THEN <<BufferEvent("decode", buf)>> ELSE <<>>

\* createNewArgs that throws only for a status with details.
createNewArgs_positive(func, input, status, handle) ==
    IF func = "undefined"
    THEN [value |-> 0, raised |-> Raise("TypeError", <<>>), calls |-> <<>>]
    ELSE LET call == Call(func, 0, input, status) IN
         IF status > 0
         THEN [value |-> 0, raised |-> throwErrors(status), calls |-> <<call, FreeBuffer>>]
         ELSE [value |-> handle, raised |-> NoError, calls |-> <<call>>]

\* createNewArgs that frees the native buffer as soon as a failed call returns,
\* before it builds outBuf from it.
createNewArgs_freeFirst(func, input, status, handle) ==
    IF func = "undefined"
    THEN [value |-> 0, raised |-> Raise("TypeError", <<>>), calls |-> <<>>]
    ELSE LET call == Call(func, 0, input, status) IN
         IF status # 0
         THEN [value  |-> 0,
               raised |-> throwErrors(status),
               calls  |-> <<call, FreeBuffer>>,
               buffer |-> (IF status > 0 THEN <<View, Free, Copy>> ELSE <<View, Free>>)
                              \o throwErrorsDecode(status, "outBuf")]
         ELSE [value |-> handle, raised |-> NoError, calls |-> <<call>>,
               buffer |-> <<View>>]

\* createNewArgs(func, input, inputParser): the native constructor is called once;
\* a non-zero status throws (the output buffer is freed first when status > 0),
\* status 0 returns the handle the native side wrote.
createNewArgs(func, input, status, handle) ==
    IF func = "undefined"
    THEN [value |-> 0, raised |-> Raise("TypeError", <<>>), calls |-> <<>>]
    ELSE LET call == Call(func, 0, input, status) IN
         IF status # 0
         THEN [value  |-> 0,
               raised |-> throwErrors(status),
               calls  |-> IF status > 0 THEN <<call, FreeBuffer>> ELSE <<call>>,
               buffer |-> (IF status > 0 THEN <<View, Copy, Free>> ELSE <<View>>)
                              \o throwErrorsDecode(status, "outBuf")]
         ELSE [value |-> handle, raised |-> NoError, calls |-> <<call>>,
               buffer |-> <<View>>]

\* methodArgsResult(func, instancePtr, input, inputParser, resultParser): the output
\* buffer is copied and freed when status >= 0, then throwErrors is called whatever
\* the status is, so the return statement after it is never reached.
methodArgsResult(func, ptr, input, status) ==
    IF func = "undefined"
    THEN [returned |-> FALSE, raised |-> Raise("TypeError", <<>>), calls |-> <<>>]
    ELSE LET call == Call(func, ptr, input, status) IN
         [returned |-> FALSE,
          raised   |-> throwErrors(status),
          calls    |-> IF status >= 0 THEN <<call, FreeBuffer>> ELSE <<call>>,
          buffer   |-> (IF status >= 0 THEN <<View, Copy, Free>> ELSE <<View>>)
                          \o throwErrorsDecode(status, "outBuf")]

\* methodArgsNoResult that calls the native function a second time after a failure.
methodArgsNoResult_retry(func, ptr, input, status) ==
    IF func = "undefined"
    THEN [returned |-> FALSE, raised |-> Raise("TypeError", <<>>), calls |-> <<>>]
    ELSE LET call == Call(func, ptr, input, status) IN
         IF status # 0
         THEN [returned |-> FALSE,
               raised   |-> throwErrors(status),
               calls    |-> IF status > 0 THEN <<call, FreeBuffer, call, FreeBuffer>>
                                          ELSE <<call, call>>]
         ELSE [returned |-> TRUE, raised |-> NoError, calls |-> <<call>>]

\* methodArgsNoResult(func, instancePtr, input, inputParser)
methodArgsNoResult(func, ptr, input, status) ==
    IF func = "undefined"
    THEN [returned |-> FALSE, raised |-> Raise("TypeError", <<>>), calls |-> <<>>]
    ELSE LET call == Call(func, ptr, input, status) IN
         IF status # 0
         THEN [returned |-> FALSE,
               raised   |-> throwErrors(status),
               calls    |-> IF status > 0 THEN <<call, FreeBuffer>> ELSE <<call>>,
               buffer   |-> (IF status > 0 THEN <<View, Copy, Free>> ELSE <<View>>)
                                \o throwErrorsDecode(status, "outBuf")]
         ELSE [returned |-> TRUE, raised |-> NoError, calls |-> <<call>>,
               buffer |-> <<View>>]

\* ------------------------------------------------------------------ instances

Classes == {"Normalizer", "PreTokenizer", "PipelineString", "Tokenizer"}

Objs == 1 .. Len(objs)

OfClass(cls) == {o \in Objs : objs[o].cls = cls}

\* ForeignInstance.getInstancePtr(instance): Number(instance.instancePtr). Number()
\* of a BigInt is exact below 2^53, which covers every handle of the model, and
\* maps 0n to 0 and nothing else to 0.
getInstancePtr(o) == instancePtr[o]

\* freFunc() of each class.
freFunc(cls) ==
    CASE cls = "Normalizer"     -> dylib("free_normalizer_wrapper")
      [] cls = "PreTokenizer"   -> dylib("free_pre_tokenizer_wrapper")
      [] cls = "PipelineString" -> dylib("free_pipeline_string")
      [] cls = "Tokenizer"      -> dylib("free_tokenizer")

\* The handle a native constructor returns on success: fresh and non-zero.
FreshHandle == Len(objs) + 1

\* The instance a successful constructor hands to the caller.
NewObj(cls, isSeq, children) ==
    [cls |-> cls, isSeq |-> isSeq, children |-> children, handle |-> FreshHandle]

\* The record of one public operation; buffer is what its call helper did with the
\* output buffer (empty when the operation ended before a native call).
Op(op, self, args, text, res, created) ==
    [op |-> op, self |-> self, args |-> args, text |-> text, raised |-> res.raised,
     calls |-> res.calls, returned |-> res.raised = NoError, created |-> created,
     buffer |-> IF "buffer" \in DOMAIN res THEN res.buffer ELSE <<>>]

Init ==
    /\ objs = <<>>
    /\ instancePtr = <<>>
    /\ released = <<>>
    /\ disposeState = <<>>
    /\ lastOp = Op("none", 0, <<>>, <<>>, [raised |-> NoError, calls |-> <<>>], 0)

\* A constructor that hands the instance to the caller whether createNewArgs
\* returned or threw.
Construct_keep(op, cls, isSeq, children, text, res) ==
    /\ lastOp' = Op(op, 0, children, text, res, IF res.raised = NoError THEN Len(objs) + 1 ELSE 0)
    /\ objs' = Append(objs, NewObj(cls, isSeq, children))
    /\ instancePtr' = Append(instancePtr, FreshHandle)
    /\ disposeState' = Append(disposeState, "never")
    /\ UNCHANGED released

\* A constructor that goes through createNewArgs: on success the caller holds a
\* new instance whose instancePtr is the handle returned.
Construct(op, cls, isSeq, children, text, res) ==
    /\ lastOp' = Op(op, 0, children, text, res, IF res.raised = NoError THEN Len(objs) + 1 ELSE 0)
    /\ IF res.raised = NoError
       THEN /\ objs' = Append(objs, NewObj(cls, isSeq, children))
            /\ instancePtr' = Append(instancePtr, res.value)
            /\ disposeState' = Append(disposeState, "never")
       ELSE UNCHANGED <<objs, instancePtr, disposeState>>
    /\ UNCHANGED released

\* new Lowercase(), new Nfd(), ... : Normalizer.constructor
NewNormalizer ==
    /\ Len(objs) < MaxObjs
    /\ \E status \in Statuses :
         Construct("newNormalizer", "Normalizer", FALSE, <<>>, <<>>,
                   createNewArgs(dylib("new_normalizer_wrapper"),
                                 Input("normalizer", <<>>, <<>>), status, FreshHandle))

\* new Whitespace(), new Bert(), ... : PreTokenizer.constructor
NewPreTokenizer ==
    /\ Len(objs) < MaxObjs
    /\ \E status \in Statuses :
         Construct("newPreTokenizer", "PreTokenizer", FALSE, <<>>, <<>>,
                   createNewArgs(dylib("new_pre_tokenizer_wrapper"),
                                 Input("preTokenizer", <<>>, <<>>), status, FreshHandle))

\* new PipelineString(original)
NewPipelineString ==
    /\ Len(objs) < MaxObjs
    /\ \E status \in Statuses :
         Construct("newPipelineString", "PipelineString", FALSE, <<>>, <<>>,
                   createNewArgs(dylib("new_pipeline_string"),
                                 Input("content", <<>>, <<>>), status, FreshHandle))

\* Tokenizer.fromFile(path)
FromFile ==
    /\ Len(objs) < MaxObjs
    /\ \E status \in Statuses :
         Construct("fromFile", "Tokenizer", FALSE, <<>>, <<>>,
                   createNewArgs(dylib("tokenizer_from_file"),
                                 Input("file", <<>>, <<>>), status, FreshHandle))

\* The strings handed to a constructor that takes one character.
Chars == {"a", "b"}

Strings == UNION {[1 .. n -> Chars] : n \in 0 .. MaxStrLen}

\* str[0]: the first character, undefined for the empty string.
charAt0(str) == IF Len(str) > 0 THEN str[1] ELSE "undefined"

\* Delimiter.constructor without the test of the length.
Delimiter_unchecked(delimiterChar, status, handle) ==
    createNewArgs(dylib("new_pre_tokenizer_wrapper"),
                  Input("delimiter", <<>>, <<charAt0(delimiterChar)>>), status, handle)

\* Delimiter.constructor(delimiterChar): an empty string throws a plain Error before
\* super() is reached; otherwise the first character is sent.
Delimiter(delimiterChar, status, handle) ==
    IF Len(delimiterChar) = 0
    THEN [value |-> 0, raised |-> Raise("Error", <<>>), calls |-> <<>>]
    ELSE createNewArgs(dylib("new_pre_tokenizer_wrapper"),
                       Input("delimiter", <<>>, <<charAt0(delimiterChar)>>), status, handle)

NewDelimiter ==
    /\ Len(objs) < MaxObjs
    /\ \E delimiterChar \in Strings, status \in Statuses :
         Construct("newDelimiter", "PreTokenizer", FALSE, <<>>, delimiterChar,
                   Delimiter(delimiterChar, status, FreshHandle))

\* A boolean as it is written into a message.
BoolStr(b) == IF b THEN "true" ELSE "false"

\* generated/pre_tokenizers/metaspace.ts, PrependScheme
PrependSchemes == {"FIRST", "NEVER", "ALWAYS"}

\* Metaspace.constructor(replacementChar, prependScheme, split): an empty string
\* throws a plain Error before super(); any other string is cut to its first
\* character, which is sent with prependScheme and split.
Metaspace(replacementChar, prependScheme, split, status, handle) ==
    IF Len(replacementChar) = 0
    THEN [value |-> 0, raised |-> Raise("Error", <<>>), calls |-> <<>>]
    ELSE createNewArgs(dylib("new_pre_tokenizer_wrapper"),
                       Input("metaspace", <<>>,
                             <<charAt0(replacementChar), prependScheme, BoolStr(split)>>),
                       status, handle)

NewMetaspace ==
    /\ Len(objs) < MaxObjs
    /\ \E replacementChar \in Strings, prependScheme \in PrependSchemes,
          split \in BOOLEAN, status \in Statuses :
         Construct("newMetaspace", "PreTokenizer", FALSE, <<>>, replacementChar,
                   Metaspace(replacementChar, prependScheme, split, status, FreshHandle))

\* A field of a message that create() leaves unset.
Unset == "undefined"

\* The pattern and content strings handed to Split and Replace.
Patterns == {"x", "x+"}

Contents == {"", "y"}

\* generated/pre_tokenizers/split_delimiter_behavior.ts, SplitDelimiterBehavior
SplitDelimiterBehaviors ==
    {"REMOVED", "ISOLATED", "MERGED_WITH_PREVIOUS", "MERGED_WITH_NEXT", "CONTIGUOUS"}

\* utils.Split.create({...}): the fields regexSplit, stringSplit, behavior, invert.
SplitMessage(regexSplit, stringSplit, behavior, invert) ==
    Input("split", <<>>, <<regexSplit, stringSplit, behavior, BoolStr(invert)>>)

\* Split.constructor(pattern, behavior, invert, isRegex): with isRegex the pattern
\* goes into stringSplit, without it into regexSplit.
Split(pattern, behavior, invert, isRegex, status, handle) ==
    createNewArgs(dylib("new_pre_tokenizer_wrapper"),
                  IF isRegex
                  THEN SplitMessage(Unset, pattern, behavior, invert)
                  ELSE SplitMessage(pattern, Unset, behavior, invert),
                  status, handle)

NewSplit ==
    /\ Len(objs) < MaxObjs
    /\ \E pattern \in Patterns, behavior \in SplitDelimiterBehaviors,
          invert \in BOOLEAN, isRegex \in BOOLEAN, status \in Statuses :
         Construct("newSplit", "PreTokenizer", FALSE, <<>>,
                   <<pattern, behavior, BoolStr(invert), BoolStr(isRegex)>>,
                   Split(pattern, behavior, invert, isRegex, status, FreshHandle))

\* Rep.create({...}): the fields regexReplacement, stringReplacement, content.
ReplaceMessage(regexReplacement, stringReplacement, content) ==
    Input("replace", <<>>, <<regexReplacement, stringReplacement, content>>)

\* Replace.constructor with the two pattern fields exchanged.
Replace_swapped(pattern, content, isRegex, status, handle) ==
    createNewArgs(dylib("new_normalizer_wrapper"),
                  IF isRegex
                  THEN ReplaceMessage(Unset, pattern, content)
                  ELSE ReplaceMessage(pattern, Unset, content),
                  status, handle)

\* Replace.constructor(pattern, content, isRegex): with isRegex the pattern goes
\* into regexReplacement, without it into stringReplacement.
Replace(pattern, content, isRegex, status, handle) ==
    createNewArgs(dylib("new_normalizer_wrapper"),
                  IF isRegex
                  THEN ReplaceMessage(pattern, Unset, content)
                  ELSE ReplaceMessage(Unset, pattern, content),
                  status, handle)

NewReplace ==
    /\ Len(objs) < MaxObjs
    /\ \E pattern \in Patterns, content \in Contents, isRegex \in BOOLEAN,
          status \in Statuses :
         Construct("newReplace", "Normalizer", FALSE, <<>>,
                   <<pattern, content, BoolStr(isRegex)>>,
                   Replace(pattern, content, isRegex, status, FreshHandle))

\* ------------------------------------------------------------------ Sequence

\* The lists a caller can hand to a Sequence constructor: instances of the class,
\* live or disposed, Sequences included, repetitions allowed.
Lists(cls) == UNION {[1 .. n -> OfClass(cls)] : n \in 0 .. MaxLen}

\* The loop of Sequence.constructor walking the list from its end.
RECURSIVE addressesLoop_rev(_, _, _)
addressesLoop_rev(list, i, addresses) ==
    IF i > Len(list)
    THEN [raised |-> NoError, addresses |-> addresses]
    ELSE LET k == Len(list) + 1 - i
             address == getInstancePtr(list[k]) IN
         IF address = 0
         THEN [raised |-> Raise("ObjectDisposed", <<k - 1>>), addresses |-> addresses]
         ELSE addressesLoop_rev(list, i + 1, <<address>> \o addresses)

\* The loop of Sequence.constructor putting each handle in front of the others.
RECURSIVE addressesLoop_unshift(_, _, _)
addressesLoop_unshift(list, i, addresses) ==
    IF i > Len(list)
    THEN [raised |-> NoError, addresses |-> addresses]
    ELSE LET address == getInstancePtr(list[i]) IN
         IF address = 0
         THEN [raised |-> Raise("ObjectDisposed", <<i - 1>>), addresses |-> addresses]
         ELSE addressesLoop_unshift(list, i + 1, <<address>> \o addresses)

\* The loop of Sequence.constructor: the handle of each element in list order; the
\* first element whose handle is 0 throws ObjectDisposed naming its index (from 0).
RECURSIVE addressesLoop(_, _, _)
addressesLoop(list, i, addresses) ==
    IF i > Len(list)
    THEN [raised |-> NoError, addresses |-> addresses]
    ELSE LET address == getInstancePtr(list[i]) IN
         IF address = 0
         THEN [raised |-> Raise("ObjectDisposed", <<i - 1>>), addresses |-> addresses]
         ELSE addressesLoop(list, i + 1, Append(addresses, address))

\* Sequence.constructor (normalizers and pre-tokenizers): the loop, then super().
Sequence(func, list, status, handle) ==
    LET loop == addressesLoop(list, 1, <<>>) IN
    IF loop.raised # NoError
    THEN [value |-> 0, raised |-> loop.raised, calls |-> <<>>]
    ELSE createNewArgs(func, Input("sequence", loop.addresses, <<>>), status, handle)

NewNormalizerSequence ==
    /\ Len(objs) < MaxObjs
    /\ \E normalizers \in Lists("Normalizer"), status \in Statuses :
         Construct("newSequence", "Normalizer", TRUE, normalizers, <<>>,
                   Sequence(dylib("new_normalizer_wrapper"), normalizers, status, FreshHandle))

NewPreTokenizerSequence ==
    /\ Len(objs) < MaxObjs
    /\ \E preTokenizers \in Lists("PreTokenizer"), status \in Statuses :
         Construct("newSequence", "PreTokenizer", TRUE, preTokenizers, <<>>,
                   Sequence(dylib("new_pre_tokenizer_wrapper"), preTokenizers, status, FreshHandle))

\* ------------------------------------------------------------------ dispose

\* The state a dispose() call works on: the handles, the release calls made so far,
\* the dispose() outcome of each instance, the native calls of this operation and
\* the error in flight.
DisposeStart ==
    [ptr |-> instancePtr, released |-> released, ds |-> disposeState,
     calls |-> <<>>, raised |-> NoError]

\* ForeignInstance._dispose() that also zeroes the handle of every Sequence whose
\* list holds the instance.
ForeignInstance_dispose_owners(o, st) ==
    IF st.ptr[o] = 0
    THEN st
    ELSE LET f == freFunc(objs[o].cls) IN
         IF f = "undefined"
         THEN [st EXCEPT !.raised = Raise("TypeError", <<>>)]
         ELSE [st EXCEPT !.calls = Append(@, FreeCall(f, st.ptr[o])),
                         !.released = Append(@, FreeCall(f, st.ptr[o])),
                         !.ptr = [i \in DOMAIN st.ptr |->
                                    IF i = o \/ \E k \in DOMAIN objs[i].children :
                                                    objs[i].children[k] = o
                                    THEN 0 ELSE st.ptr[i]]]

\* ForeignInstance._dispose(): nothing when the handle is 0; otherwise the release
\* function of the class is called with the handle and the handle is zeroed.
ForeignInstance_dispose(o, st) ==
    IF st.ptr[o] = 0
    THEN st
    ELSE LET f == freFunc(objs[o].cls) IN
         IF f = "undefined"
         THEN [st EXCEPT !.raised = Raise("TypeError", <<>>)]
         ELSE [st EXCEPT !.calls = Append(@, FreeCall(f, st.ptr[o])),
                         !.released = Append(@, FreeCall(f, st.ptr[o])),
                         !.ptr[o] = 0]

RECURSIVE dispose(_, _)
RECURSIVE forEachDispose(_, _, _)

\* Sequence._dispose() that releases the Sequence and leaves the elements alone.
Sequence_dispose_own(o, st) == ForeignInstance_dispose(o, st)

\* Sequence._dispose() that calls super._dispose() before it walks the list.
Sequence_dispose_ownFirst(o, st) ==
    LET st1 == ForeignInstance_dispose(o, st) IN
    IF st1.raised # NoError THEN st1 ELSE forEachDispose(objs[o].children, 1, st1)

\* Sequence._dispose(): dispose() on every element of the list in order, then
\* super._dispose(). An error thrown by an element ends the call.
Sequence_dispose(o, st) ==
    LET st1 == forEachDispose(objs[o].children, 1, st) IN
    IF st1.raised # NoError THEN st1 ELSE ForeignInstance_dispose(o, st1)

\* this.normalizers.forEach((n) => { n.dispose(); })
forEachDispose(list, i, st) ==
    IF i > Len(list) \/ st.raised # NoError
    THEN st
    ELSE forEachDispose(list, i + 1, dispose(list[i], st))

\* ForeignInstance.dispose(): this._dispose(), dispatched on the class.
dispose(o, st) ==
    LET r == IF objs[o].isSeq THEN Sequence_dispose(o, st) ELSE ForeignInstance_dispose(o, st)
    IN [r EXCEPT !.ds[o] = IF r.raised = NoError THEN "returned" ELSE "raised"]

Dispose ==
    \E o \in Objs :
        LET r == dispose(o, DisposeStart) IN
        /\ instancePtr' = r.ptr
        /\ released' = r.released
        /\ disposeState' = r.ds
        /\ lastOp' = Op("dispose", o, <<>>, <<>>, r, 0)
        /\ UNCHANGED objs

\* ------------------------------------------------------------------ methods

\* A method call changes no instance: only its outcome is recorded.
Method(op, self, args, res) ==
    /\ lastOp' = Op(op, self, args, <<>>, res, 0)
    /\ UNCHANGED <<objs, instancePtr, released, disposeState>>

ObjectDisposed == [raised |-> Raise("ObjectDisposed", <<>>), calls |-> <<>>, returned |-> FALSE]

\* Normalizer.normalize(pipelineString)
normalize(self, pipelineString, status) ==
    IF instancePtr[self] = 0
    THEN ObjectDisposed
    ELSE methodArgsNoResult(dylib("normalize"), instancePtr[self],
                            Input("pipelineString", <<getInstancePtr(pipelineString)>>, <<>>),
                            status)

Normalize ==
    \E self \in OfClass("Normalizer"), pipelineString \in OfClass("PipelineString"),
       status \in Statuses :
        Method("normalize", self, <<pipelineString>>, normalize(self, pipelineString, status))

\* PreTokenizer.preTokenize(pipelineString)
preTokenize(self, pipelineString, status) ==
    IF instancePtr[self] = 0
    THEN ObjectDisposed
    ELSE methodArgsNoResult(dylib("pre_tokenize"), instancePtr[self],
                            Input("pipelineString", <<getInstancePtr(pipelineString)>>, <<>>),
                            status)

PreTokenize ==
    \E self \in OfClass("PreTokenizer"), pipelineString \in OfClass("PipelineString"),
       status \in Statuses :
        Method("preTokenize", self, <<pipelineString>>, preTokenize(self, pipelineString, status))

\* PipelineString.getSplits(offsetReferential, offsetType, includeOffsets): the
\* handle is passed to methodArgsResult without a test.
getSplits(self, status) ==
    methodArgsResult(dylib("get_splits"), instancePtr[self], Input("splitParams", <<>>, <<>>),
                     status)

GetSplits ==
    \E self \in OfClass("PipelineString"), status \in Statuses :
        Method("getSplits", self, <<>>, getSplits(self, status))

\* Tokenizer.decode(ids, skipSpecialTokens)
decode(self, status) ==
    IF instancePtr[self] = 0
    THEN ObjectDisposed
    ELSE methodArgsResult(dylib("decode"), instancePtr[self], Input("decodeParams", <<>>, <<>>),
                          status)

Decode ==
    \E self \in OfClass("Tokenizer"), status \in Statuses :
        Method("decode", self, <<>>, decode(self, status))

\* Tokenizer.encode(input, addSpecialTokens, input2, ...)
encode(self, status) ==
    IF instancePtr[self] = 0
    THEN ObjectDisposed
    ELSE methodArgsResult(dylib("encode"), instancePtr[self], Input("encodeParams", <<>>, <<>>),
                          status)

Encode ==
    \E self \in OfClass("Tokenizer"), status \in Statuses :
        Method("encode", self, <<>>, encode(self, status))

\* ------------------------------------------------------------------ training

\* An optional argument left at its default.
null == 0

\* The optional handle fields of TokenizerFromTrain that the arguments set: the
\* field names, and the value getInstancePtr gives for each.
TrainingFields(normalizer, preTokenizer) ==
    (IF normalizer # null THEN <<"normalizer">> ELSE <<>>)
        \o (IF preTokenizer # null THEN <<"preTokenizer">> ELSE <<>>)

TrainingHandles(normalizer, preTokenizer) ==
    (IF normalizer # null THEN <<getInstancePtr(normalizer)>> ELSE <<>>)
        \o (IF preTokenizer # null THEN <<getInstancePtr(preTokenizer)>> ELSE <<>>)

\* Tokenizer.fromTrain(files, savePath, model, trainer, pretty, normalizer,
\* preTokenizer, ...): the handles of the stages given are written into the
\* message without a test, then the native constructor is called.
fromTrain(normalizer, preTokenizer, status, handle) ==
    createNewArgs(dylib("tokenizer_from_train"),
                  Input("tokenizerFromTrain",
                        TrainingHandles(normalizer, preTokenizer),
                        TrainingFields(normalizer, preTokenizer)),
                  status, handle)

FromTrain ==
    /\ Len(objs) < MaxObjs
    /\ \E normalizer \in OfClass("Normalizer") \cup {null},
          preTokenizer \in OfClass("PreTokenizer") \cup {null},
          status \in Statuses :
         LET res == fromTrain(normalizer, preTokenizer, status, FreshHandle) IN
         /\ lastOp' = Op("fromTrain", 0, <<normalizer, preTokenizer>>, <<>>, res,
                         IF res.raised = NoError THEN Len(objs) + 1 ELSE 0)
         /\ IF res.raised = NoError
            THEN /\ objs' = Append(objs, NewObj("Tokenizer", FALSE, <<>>))
                 /\ instancePtr' = Append(instancePtr, res.value)
                 /\ disposeState' = Append(disposeState, "never")
            ELSE UNCHANGED <<objs, instancePtr, disposeState>>
         /\ UNCHANGED released

\* ------------------------------------------------------------------ call helpers

\* Every status a native function can answer with: each CallStatus code, and one
\* number below and one above them that no CallStatus case matches.
AllStatuses == (-5) .. 11

\* The native functions handed to each call helper.
Constructors ==
    {"new_pipeline_string", "new_normalizer_wrapper", "new_pre_tokenizer_wrapper",
     "tokenizer_from_file", "tokenizer_from_train"}

ResultMethods == {"get_splits", "encode", "decode"}

NoResultMethods == {"normalize", "pre_tokenize"}

\* A call helper applied on its own: only its outcome is recorded.
Helper(op, res) ==
    /\ lastOp' = Op(op, 0, <<>>, <<>>, res, 0)
    /\ UNCHANGED <<objs, instancePtr, released, disposeState>>

CallCreateNewArgs ==
    \E func \in Constructors, status \in AllStatuses :
        Helper("createNewArgs", createNewArgs(dylib(func), NoInput, status, 1))

CallMethodArgsResult ==
    \E func \in ResultMethods, status \in AllStatuses :
        Helper("methodArgsResult", methodArgsResult(dylib(func), 1, NoInput, status))

CallMethodArgsNoResult ==
    \E func \in NoResultMethods, status \in AllStatuses :
        Helper("methodArgsNoResult", methodArgsNoResult(dylib(func), 1, NoInput, status))

\* ------------------------------------------------------------------ specification

Next ==
    \/ NewNormalizer
    \/ NewPreTokenizer
    \/ NewPipelineString
    \/ FromFile
    \/ FromTrain
    \/ NewDelimiter
    \/ NewNormalizerSequence
    \/ NewPreTokenizerSequence
    \/ Dispose
    \/ Normalize
    \/ PreTokenize
    \/ GetSplits
    \/ Decode
    \/ Encode

Spec == Init /\ [][Next]_vars

\* The constructors that marshal their own arguments into the message, with
\* dispose() so that construction also happens next to released instances.
NextConfig ==
    \/ NewMetaspace
    \/ NewSplit
    \/ NewReplace
    \/ Dispose

SpecConfig == Init /\ [][NextConfig]_vars

\* The three call helpers under every status.
NextCalls ==
    \/ CallCreateNewArgs
    \/ CallMethodArgsResult
    \/ CallMethodArgsNoResult

SpecCalls == Init /\ [][NextCalls]_vars

\* ------------------------------------------------------------------ properties

\* How many times a handle has been passed to a release function.
ReleaseCount(h) == Cardinality({i \in DOMAIN released : released[i].ptr = h})

Range(list) == {list[i] : i \in DOMAIN list}

\* The children of a Sequence, transitively through nested Sequences.
RECURSIVE Descendants(_)
Descendants(o) ==
    Range(objs[o].children) \cup UNION {Descendants(c) : c \in Range(objs[o].children)}

\* dispose() has been called on the instance (whether it returned or raised).
DisposeCalled(o) == disposeState[o] # "never"

NativeCalls(fn) == {i \in DOMAIN lastOp.calls : lastOp.calls[i].fn = fn}

\* C1: after dispose() has been called on a Normalizer, PreTokenizer or Tokenizer,
\* every later normalize / preTokenize / encode / decode on it raises ObjectDisposed
\* and makes no native call.
C1_UseAfterDisposeRaises ==
    (lastOp.op \in {"normalize", "preTokenize", "encode", "decode"}
        /\ DisposeCalled(lastOp.self))
    => (lastOp.raised.cls = "ObjectDisposed" /\ lastOp.calls = <<>>)

\* C2: getSplits on a disposed PipelineString raises ObjectDisposed and the zero
\* handle is never passed to the native get_splits.
C2_GetSplitsAfterDisposeRaises ==
    (lastOp.op = "getSplits" /\ DisposeCalled(lastOp.self))
    => (/\ lastOp.raised.cls = "ObjectDisposed"
        /\ \A i \in NativeCalls("get_splits") : lastOp.calls[i].ptr # 0)

\* C3: normalize / preTokenize on a live stage with a PipelineString that has already
\* been disposed raises ObjectDisposed and does not invoke the native function.
C3_DisposedArgumentRaises ==
    (lastOp.op \in {"normalize", "preTokenize"}
        /\ instancePtr[lastOp.self] # 0
        /\ disposeState[lastOp.args[1]] = "returned")
    => (/\ lastOp.raised.cls = "ObjectDisposed"
        /\ NativeCalls("normalize") = {}
        /\ NativeCalls("pre_tokenize") = {})

\* C4: when the native function reports status 0 on a live instance, encode, decode
\* and getSplits return their result and raise no error.
C4_SuccessReturns ==
    (lastOp.op \in {"encode", "decode", "getSplits"}
        /\ instancePtr[lastOp.self] # 0
        /\ lastOp.calls # <<>>
        /\ lastOp.calls[1].status = 0)
    => (lastOp.returned /\ lastOp.raised = NoError)

\* C5: no dispose() call raises, whatever was disposed before, and each native handle
\* is passed to its release function at most once.
C5_DisposeNeverRaisesNorDoubleFrees ==
    /\ lastOp.op = "dispose" => lastOp.raised = NoError
    /\ \A o \in Objs : ReleaseCount(objs[o].handle) <= 1

\* C6: once dispose() of a Sequence has returned, the Sequence and each of its
\* transitive children have a zero handle, each child's native handle has been
\* released, and normalize / preTokenize on the Sequence or on any of the children
\* raises ObjectDisposed.
C6_SequenceDisposeCascades ==
    \A s \in Objs :
        (objs[s].isSeq /\ disposeState[s] = "returned")
        => /\ instancePtr[s] = 0
           /\ \A c \in Descendants(s) :
                 instancePtr[c] = 0 /\ ReleaseCount(objs[c].handle) >= 1
           /\ (lastOp.op \in {"normalize", "preTokenize"}
                  /\ lastOp.self \in {s} \cup Descendants(s))
              => (lastOp.raised.cls = "ObjectDisposed" /\ lastOp.calls = <<>>)

\* C6 witness: one dispose() of a Sequence that holds a non-empty Sequence released the
\* grandchild, the child and the Sequence itself.
C6_Witness ==
    /\ lastOp.op = "dispose"
    /\ lastOp.raised = NoError
    /\ objs[lastOp.self].isSeq
    /\ \E c \in Range(objs[lastOp.self].children) :
          objs[c].isSeq /\ objs[c].children # <<>>
    /\ Len(lastOp.calls) = 3

\* The elements of a list whose handle is zero.
DisposedAt(list) == {i \in DOMAIN list : instancePtr[list[i]] = 0}

Lowest(S) == CHOOSE i \in S : \A j \in S : i <= j

\* C7: constructing a Sequence from a list with a disposed element raises
\* ObjectDisposed naming the lowest index of a disposed element, makes no native
\* call, creates no instance and changes no handle.
C7_SequenceOfDisposedRaises ==
    [][(lastOp'.op = "newSequence" /\ DisposedAt(lastOp'.args) # {})
        => /\ lastOp'.raised = Raise("ObjectDisposed", <<Lowest(DisposedAt(lastOp'.args)) - 1>>)
           /\ lastOp'.calls = <<>>
           /\ lastOp'.created = 0
           /\ objs' = objs
           /\ instancePtr' = instancePtr
           /\ released' = released]_vars

\* C7 witness: a Sequence constructor was handed two distinct disposed elements and
\* named index 0.
C7_Witness ==
    /\ lastOp.op = "newSequence"
    /\ Len(lastOp.args) = 2
    /\ lastOp.args[1] # lastOp.args[2]
    /\ DisposedAt(lastOp.args) = {1, 2}
    /\ lastOp.raised = Raise("ObjectDisposed", <<0>>)

\* The elements a failed Sequence constructor had already taken: those before the
\* element found disposed, or all of them when the native constructor failed.
Adopted ==
    IF lastOp.raised.cls = "ObjectDisposed"
    THEN {lastOp.args[i] : i \in 1 .. lastOp.raised.detail[1]}
    ELSE Range(lastOp.args)

\* C8: when construction of a Sequence fails part-way, every child already adopted
\* is released exactly once.
C8_FailedSequenceReleasesAdopted ==
    (lastOp.op = "newSequence" /\ lastOp.raised # NoError)
    => \A c \in Adopted : ReleaseCount(objs[c].handle) = 1

\* C9: while a Sequence is constructed and not yet disposed, none of its children's
\* native handles has been released.
C9_LiveSequenceOwnsChildren ==
    \A s \in Objs :
        (objs[s].isSeq /\ instancePtr[s] # 0)
        => \A c \in Descendants(s) : ReleaseCount(objs[c].handle) = 0

\* C10 as stated: a Delimiter built with an empty delimiter character fails with
\* PreTokenizationError and no instance is created.
C10_EmptyDelimiterPreTokenizationError ==
    (lastOp.op = "newDelimiter" /\ lastOp.text = <<>>)
    => (lastOp.raised.cls = "PreTokenizationError" /\ lastOp.created = 0)

\* C10 as amended: a Delimiter built with an empty delimiter character fails at
\* construction with a plain Error, before any native call, and no instance
\* (native handle) is created.
C10_EmptyDelimiterError ==
    (lastOp.op = "newDelimiter" /\ lastOp.text = <<>>)
    => (/\ lastOp.raised = Raise("Error", <<>>)
        /\ lastOp.calls = <<>>
        /\ lastOp.created = 0)

\* C10 witness: the Delimiter constructor was called with the empty string while the
\* caller could still hold another instance.
C10_Witness ==
    /\ lastOp.op = "newDelimiter"
    /\ lastOp.text = <<>>
    /\ lastOp.raised.cls = "Error"

\* C11: a Metaspace built with a replacementChar of any length other than 1 (empty
\* or longer) is rejected and creates no native instance.
C11_MetaspaceOneCharOnly ==
    (lastOp.op = "newMetaspace" /\ Len(lastOp.text) # 1)
    => (/\ lastOp.raised # NoError
        /\ lastOp.created = 0
        /\ \A i \in DOMAIN lastOp.calls : lastOp.calls[i].status # 0)

\* C12: Split sends the pattern as a literal string (stringSplit) when isRegex is
\* false and as a regex (regexSplit) when isRegex is true; behavior and invert are
\* forwarded unchanged.
C12_SplitIsRegexSelectsField ==
    (lastOp.op = "newSplit" /\ lastOp.calls # <<>>)
    => LET m == lastOp.calls[1].input.text
           pattern == lastOp.text[1]
       IN /\ lastOp.calls[1].input.kind = "split"
          /\ IF lastOp.text[4] = "true"
             THEN m[1] = pattern /\ m[2] = Unset
             ELSE m[1] = Unset /\ m[2] = pattern
          /\ m[3] = lastOp.text[2]
          /\ m[4] = lastOp.text[3]

\* C13: Replace sends the pattern as a literal string (stringReplacement) when
\* isRegex is false and as a regex (regexReplacement) when isRegex is true; exactly
\* one of the two fields is set and content is forwarded unchanged.
C13_ReplaceIsRegexSelectsField ==
    (lastOp.op = "newReplace" /\ lastOp.calls # <<>>)
    => LET m == lastOp.calls[1].input.text
           pattern == lastOp.text[1]
       IN /\ lastOp.calls[1].fn = "new_normalizer_wrapper"
          /\ lastOp.calls[1].input.kind = "replace"
          /\ IF lastOp.text[3] = "true"
             THEN m[1] = pattern /\ m[2] = Unset
             ELSE m[1] = Unset /\ m[2] = pattern
          /\ Cardinality({i \in {1, 2} : m[i] # Unset}) = 1
          /\ m[3] = lastOp.text[2]

\* C13 witness: a Replace was built from a literal pattern and the native
\* constructor returned its instance.
C13_Witness ==
    /\ lastOp.op = "newReplace"
    /\ lastOp.text[3] = "false"
    /\ lastOp.created # 0
    /\ lastOp.calls[1].input.text[2] \in Patterns

\* C14: fromTrain called with a Normalizer or PreTokenizer that has already been
\* disposed fails before the native tokenizer_from_train call is made and never
\* sends a zero handle across the boundary.
C14_FromTrainDisposedDependency ==
    (lastOp.op = "fromTrain"
        /\ \E i \in DOMAIN lastOp.args :
              lastOp.args[i] # null /\ disposeState[lastOp.args[i]] = "returned")
    => (/\ lastOp.raised # NoError
        /\ lastOp.created = 0
        /\ NativeCalls("tokenizer_from_train") = {})

\* The status the native function of the last operation answered with.
Status == lastOp.calls[1].status

HelperOps == {"createNewArgs", "methodArgsResult", "methodArgsNoResult"}

\* C15: in createNewArgs, methodArgsResult and methodArgsNoResult a non-zero status
\* of the native function always raises an error and never returns normally; a
\* status that matches no CallStatus case raises the generic Error carrying the
\* status code.
C15_NoFailureSwallowed ==
    (lastOp.op \in HelperOps /\ lastOp.calls # <<>> /\ Status # 0)
    => (/\ lastOp.raised # NoError
        /\ ~lastOp.returned
        /\ callStatusFromJSON(Status) = "UNRECOGNIZED"
              => lastOp.raised = Raise("Error", <<Status>>))

\* C15 witness: createNewArgs met a negative status that no CallStatus case matches
\* and raised the generic Error with that code.
C15_Witness ==
    /\ lastOp.op = "createNewArgs"
    /\ lastOp.calls # <<>>
    /\ Status < 0
    /\ callStatusFromJSON(Status) = "UNRECOGNIZED"
    /\ lastOp.raised = Raise("Error", <<Status>>)

\* The statuses of the transport: the message, the arguments or the handle was bad.
TransportStatuses ==
    {t \in AllStatuses : callStatusFromJSON(t) \in
        {"DECODE_ERROR", "INVALID_ARGUMENTS", "INVALID_ARGUMENTS_DETAILS",
         "UNKNOWN_ENUM_VALUE", "EMPTY_PARAMS", "INVALID_POINTER_DETAILS"}}

\* The statuses of the pipeline: a stage, the build, the training, the files, the
\* encoding or the decoding failed.
PipelineStatuses ==
    {t \in AllStatuses : callStatusFromJSON(t) \in
        {"NORMALIZATION_ERROR_DETAILS", "PRE_TOKENIZATION_ERROR_DETAILS",
         "TOKENIZER_BUILD_ERROR_DETAILS", "TOKENIZER_TRAINING_ERROR_DETAILS",
         "TOKENIZER_SAVE_ERROR_DETAILS", "TOKENIZER_LOAD_FILE_ERROR_DETAILS",
         "TOKENIZER_ENCODING_ERROR_DETAILS", "TOKENIZER_DECODING_ERROR_DETAILS"}}

\* C16: the class a helper raises for a transport status is raised for no pipeline
\* status, and the class it raises for a pipeline status is raised for no transport
\* status and for no other pipeline status.
C16_TransportAndPipelineClassesApart ==
    (lastOp.op \in HelperOps /\ lastOp.calls # <<>>)
    => /\ Status \in TransportStatuses
            => \A t \in PipelineStatuses : throwErrors(t).cls # lastOp.raised.cls
       /\ Status \in PipelineStatuses
            => /\ \A t \in TransportStatuses : throwErrors(t).cls # lastOp.raised.cls
               /\ \A t \in PipelineStatuses \ {Status} :
                     throwErrors(t).cls # lastOp.raised.cls
               /\ lastOp.raised.cls # "Error"

\* C16 witness: a constructor met the transport status of a missing field and
\* raised EmptyParams, which no pipeline status raises.
C16_Witness ==
    /\ lastOp.op = "createNewArgs"
    /\ lastOp.calls # <<>>
    /\ callStatusFromJSON(Status) = "EMPTY_PARAMS"
    /\ lastOp.raised.cls = "EmptyParams"
    /\ \A t \in PipelineStatuses : throwErrors(t).cls # "EmptyParams"

\* The public operations that cross the boundary through a call helper.
CallingOps ==
    {"newNormalizer", "newPreTokenizer", "newPipelineString", "newDelimiter",
     "newMetaspace", "newSplit", "newReplace", "newSequence", "fromFile", "fromTrain",
     "normalize", "preTokenize", "getSplits", "encode", "decode"}

\* The calls of the last operation that are not free_buffer.
FunctionCalls == {i \in DOMAIN lastOp.calls : lastOp.calls[i].fn # "free_buffer"}

\* C17: each constructor, normalize, preTokenize, getSplits, encode, decode, fromFile
\* and fromTrain invokes its native function at most once per call, and after a
\* failing status it makes no further native call other than one free_buffer.
C17_NoRetry ==
    lastOp.op \in CallingOps
    => /\ Cardinality(FunctionCalls) <= 1
       /\ \A i \in FunctionCalls :
             lastOp.calls[i].status # 0
             => /\ \A j \in DOMAIN lastOp.calls : j > i => lastOp.calls[j] = FreeBuffer
                /\ Len(lastOp.calls) <= i + 1
                /\ lastOp.raised # NoError

\* C17 witness: normalize on a live Normalizer and a live PipelineString met a
\* failing status with details, freed the error buffer and raised.
C17_Witness ==
    /\ lastOp.op = "normalize"
    /\ Len(lastOp.calls) = 2
    /\ lastOp.calls[1].fn = "normalize"
    /\ lastOp.calls[1].status > 0
    /\ lastOp.calls[2] = FreeBuffer
    /\ lastOp.raised.cls = "InvalidPointer"

\* C18: the addresses a Sequence constructor sends to the native constructor have
\* the length of the list it was given, and the i-th address is the handle of the
\* i-th element of the list.
C18_SequenceAddressesInListOrder ==
    (lastOp.op = "newSequence" /\ lastOp.calls # <<>>)
    => /\ lastOp.calls[1].input.kind = "sequence"
       /\ Len(lastOp.calls[1].input.handles) = Len(lastOp.args)
       /\ \A i \in DOMAIN lastOp.args :
             /\ lastOp.calls[1].input.handles[i] = instancePtr[lastOp.args[i]]
             /\ lastOp.calls[1].input.handles[i] = objs[lastOp.args[i]].handle

\* C18 witness: a Sequence was constructed from two different live elements.
C18_Witness ==
    /\ lastOp.op = "newSequence"
    /\ lastOp.created # 0
    /\ Len(lastOp.args) = 2
    /\ lastOp.args[1] # lastOp.args[2]
    /\ Len(lastOp.calls[1].input.handles) = 2

\* C19: dispose() on a live Tokenizer returns, has passed the Tokenizer's handle to a
\* release function that the symbol table declares, and leaves the handle zero, so
\* that a later encode / decode raises ObjectDisposed.
C19_TokenizerDisposeReleases ==
    /\ \A o \in OfClass("Tokenizer") :
          DisposeCalled(o)
          => /\ disposeState[o] = "returned"
             /\ instancePtr[o] = 0
             /\ \E i \in DOMAIN released :
                   released[i].ptr = objs[o].handle /\ released[i].fn \in Symbols
    /\ (lastOp.op \in {"encode", "decode"} /\ DisposeCalled(lastOp.self))
       => lastOp.raised.cls = "ObjectDisposed"

\* The places of an event in the buffer record of the last operation.
BufferEvents(ev) == {i \in DOMAIN lastOp.buffer : lastOp.buffer[i].ev = ev}

\* C20: in createNewArgs, methodArgsResult and methodArgsNoResult the output buffer
\* is copied before free_buffer is called on it, free_buffer is called at most once
\* per native call and never after a negative status, and the details are decoded
\* from the copy only.
C20_CopyBeforeFree ==
    (lastOp.op \in HelperOps /\ lastOp.calls # <<>>)
    => /\ Cardinality(BufferEvents("free")) <= 1
       /\ Cardinality(BufferEvents("free")) = Cardinality(NativeCalls("free_buffer"))
       /\ Status < 0 => BufferEvents("free") = {}
       /\ \A i \in BufferEvents("free") : \E j \in BufferEvents("copy") : j < i
       /\ \A i \in BufferEvents("copy") : \A j \in BufferEvents("free") : i < j
       /\ \A i \in BufferEvents("decode") :
             /\ lastOp.buffer[i].of = "outBuf"
             /\ \E j \in BufferEvents("copy") : j < i

\* C20 witness: createNewArgs met a status with details, copied the buffer, freed
\* it and decoded the details from the copy.
C20_Witness ==
    /\ lastOp.op = "createNewArgs"
    /\ lastOp.calls # <<>>
    /\ Status > 0
    /\ lastOp.buffer = <<View, Copy, Free, BufferEvent("decode", "outBuf")>>

\* The constructors and factories of the lifetime model.
ConstructorOps ==
    {"newNormalizer", "newPreTokenizer", "newPipelineString", "newDelimiter",
     "newSequence", "fromFile", "fromTrain"}

\* The release functions of the symbol table.
ReleaseFunctions ==
    {"free_pipeline_string", "free_normalizer_wrapper", "free_pre_tokenizer_wrapper",
     "free_tokenizer_wrapper"}

\* C21: when the native constructor returns a non-zero status, the constructor or
\* factory raises, the caller holds no new instance and no handle it did not hold
\* before, and no release function is called.
C21_FailedConstructionLeavesNothing ==
    [][(/\ lastOp'.op \in ConstructorOps
        /\ lastOp'.calls # <<>>
        /\ lastOp'.calls[1].fn \in Constructors
        /\ lastOp'.calls[1].status # 0)
        => /\ lastOp'.raised # NoError
           /\ lastOp'.created = 0
           /\ objs' = objs
           /\ instancePtr' = instancePtr
           /\ released' = released
           /\ \A i \in DOMAIN lastOp'.calls : lastOp'.calls[i].fn \notin ReleaseFunctions]_vars

\* C21 witness: a Sequence constructor took a live element to the native
\* constructor, which answered with a failing status; the caller holds what it
\* held before.
C21_Witness ==
    /\ lastOp.op = "newSequence"
    /\ lastOp.args # <<>>
    /\ lastOp.calls # <<>>
    /\ lastOp.calls[1].status > 0
    /\ lastOp.raised # NoError
    /\ lastOp.created = 0
    /\ released = <<>>

\* The methods that cross the boundary on an instance.
MethodOps == {"normalize", "preTokenize", "getSplits", "encode", "decode"}

\* The last operation was a method whose native call answered with an error status.
MethodFailed(op) ==
    /\ op.op \in MethodOps
    /\ op.calls # <<>>
    /\ op.calls[1].status # 0

\* C22, the failing call: a method that raises because the native call returned an
\* error status changes no handle, no instance and releases nothing.
C22_FailingMethodChangesNothing ==
    [][MethodFailed(lastOp')
        => /\ lastOp'.raised # NoError
           /\ objs' = objs
           /\ instancePtr' = instancePtr
           /\ released' = released
           /\ \A i \in DOMAIN lastOp'.calls : lastOp'.calls[i].fn \notin ReleaseFunctions]_vars

\* C22: a method that raises because the native call returned an error status
\* changes no handle and releases nothing, and afterwards the same method on the
\* instance reaches the native function again and dispose() of the instance
\* returns with its handle released.
C22_FailingMethodKeepsInstanceUsable ==
    [][/\ MethodFailed(lastOp')
          => /\ lastOp'.raised # NoError
             /\ objs' = objs
             /\ instancePtr' = instancePtr
             /\ released' = released
             /\ \A i \in DOMAIN lastOp'.calls : lastOp'.calls[i].fn \notin ReleaseFunctions
       /\ (MethodFailed(lastOp) /\ instancePtr[lastOp.self] # 0 /\ lastOp'.self = lastOp.self)
          => /\ lastOp'.op = lastOp.op => lastOp'.calls # <<>>
             /\ lastOp'.op = "dispose"
                  => /\ lastOp'.raised = NoError
                     /\ instancePtr'[lastOp.self] = 0
                     /\ \E i \in DOMAIN released' :
                           released'[i].ptr = objs[lastOp.self].handle]_vars

\* C23: dispose() on an instance changes the handle of that instance and, for a
\* Sequence, of its transitive children only; every other handle is left as it
\* was, so a Sequence keeps its handle when one of its children is disposed
\* directly, and a Tokenizer keeps its handle when a Normalizer, PreTokenizer or
\* PipelineString is disposed.
C23_DisposeFrame ==
    [][lastOp'.op = "dispose"
        => /\ objs' = objs
           /\ \A o \in Objs :
                 o \notin ({lastOp'.self} \cup Descendants(lastOp'.self))
                 => instancePtr'[o] = instancePtr[o]
           /\ \A s \in Objs :
                 (objs[s].isSeq /\ lastOp'.self \in Descendants(s)
                     /\ s \notin Descendants(lastOp'.self) /\ s # lastOp'.self)
                 => instancePtr'[s] = instancePtr[s]
           /\ objs[lastOp'.self].cls # "Tokenizer"
                 => \A t \in OfClass("Tokenizer") : instancePtr'[t] = instancePtr[t]]_vars

\* C23 witness: an element of a live Sequence was disposed directly; its handle is
\* released and zero and the Sequence still has its own.
C23_Witness ==
    /\ lastOp.op = "dispose"
    /\ lastOp.raised = NoError
    /\ Len(lastOp.calls) = 1
    /\ instancePtr[lastOp.self] = 0
    /\ \E s \in Objs :
          /\ objs[s].isSeq
          /\ lastOp.self \in Range(objs[s].children)
          /\ instancePtr[s] # 0
          /\ ReleaseCount(objs[s].handle) = 0

\* The instances whose handle a dispose() operation passed to a release function.
ReleasedBy(op) == {o \in Objs : \E i \in DOMAIN op.calls : op.calls[i].ptr = objs[o].handle}

\* The place of the release of an instance among the native calls of an operation.
ReleasePos(op, o) == CHOOSE i \in DOMAIN op.calls : op.calls[i].ptr = objs[o].handle

\* The Sequence's own handle goes last: every child that was still live has been
\* released by then, and no child is released after it.
OwnHandleLast(op) ==
    /\ \A c \in Range(objs[op.self].children) : instancePtr[c] # 0 => c \in ReleasedBy(op)
    /\ op.self \in ReleasedBy(op)
         => \A o \in ReleasedBy(op) : ReleasePos(op, o) <= ReleasePos(op, op.self)

Subtree(o) == {o} \cup Descendants(o)

\* The first element of a list that is the instance or holds it.
FirstReach(list, o) == Lowest({i \in DOMAIN list : o \in Subtree(list[i])})

====
